---- MODULE Spec2Model ----
(***************************************************************************)
(* The TI-Basic language server (server/src/server.ts): a fixed completion *)
(* list and two regular-expression scans whose results are published as    *)
(* diagnostics.  The server is a single-threaded event loop; every handler *)
(* that awaits its settings is split at the await: the part before it runs *)
(* inside the event's action, the continuation is a task that runs as a    *)
(* microtask (settings already resolved) or after the client's answer to   *)
(* the workspace/configuration request has arrived.                        *)
(*                                                                         *)
(* A text is a sequence of one-character strings, offsets are 0-based as   *)
(* in the source (CharAt converts).                                        *)
(***************************************************************************)
EXTENDS Integers, Sequences, FiniteSets, TLC

VARIABLES
    initialized,                \* onInitialize has run
    hasConfigurationCapability, \* server.ts:29
    globalSettings,             \* server.ts:90
    documentSettings,           \* server.ts:93, uri -> request id (0: no entry)
    documents,                  \* server.ts:27, the open documents in insertion order
    requests,                   \* the workspace/configuration requests sent so far
    waiting,                    \* continuations awaiting a pending request
    microtasks,                 \* continuations whose promise is resolved
    published,                  \* uri -> the diagnostics the client shows
    lastPublish,                \* the latest sendDiagnostics call
    completions,                \* the latest onCompletion response
    resolved                    \* the latest onCompletionResolve response

vars == <<initialized, hasConfigurationCapability, globalSettings, documentSettings,
          documents, requests, waiting, microtasks, published, lastPublish,
          completions, resolved>>

-----------------------------------------------------------------------------
(* Bounds of the model *)

\* configuration requests the server may send in one run
MaxRequests == 2
\* continuations that may wait for an answer of the client at one time
MaxTasks == 2
\* longest text of the exhaustive scan specification (the shortest match of
\* the operator pattern has 5 characters)
MaxTextLen == 5

(* Program constants *)

\* server.ts:89
DefaultMaxNumberOfProblems == 1000
\* server.ts:142
ErrorScanLimit == 1000

URIs == {"u1", "u2"}
\* the values of maxNumberOfProblems the client sets, beside the default: the
\* texts hold up to two uppercase runs, so one value cuts the scan short and
\* one drops it all
ClientCaps == {0, 1}

-----------------------------------------------------------------------------
(* Characters and the two regular expressions *)

UpperLetters ==
    {"A", "B", "C", "D", "E", "F", "G", "H", "I", "J", "K", "L", "M",
     "N", "O", "P", "Q", "R", "S", "T", "U", "V", "W", "X", "Y", "Z"}
LowerLetters ==
    {"a", "b", "c", "d", "e", "f", "g", "h", "i", "j", "k", "l", "m",
     "n", "o", "p", "q", "r", "s", "t", "u", "v", "w", "x", "y", "z"}
Digits == {"0", "1", "2", "3", "4", "5", "6", "7", "8", "9"}
\* \w
WordChars == UpperLetters \cup LowerLetters \cup Digits \cup {"_"}
\* \s (the members a text of the model can hold)
SpaceChars == {" ", "\t", "\n", "\r", "\f"}
\* the class [>|<|+|\-|*|...] of the operator pattern, its four non-ASCII
\* members written by code point: inside brackets | is a member, not alternation
OperatorClass == {">", "|", "<", "+", "-", "*", "<U+2192>", "<U+2264>", "<U+2265>", "<U+2260>"}
\* the operator characters the class was written for
OperatorChars == {">", "<", "+", "-", "*", "<U+2192>", "<U+2264>", "<U+2265>", "<U+2260>"}

Min(S) == CHOOSE x \in S : \A y \in S : x <= y
Max(S) == CHOOSE x \in S : \A y \in S : x >= y

CharAt(text, i) == text[i + 1]
IsWordAt(text, i) == i >= 0 /\ i < Len(text) /\ CharAt(text, i) \in WordChars
\* \b at offset i: exactly one of the characters around it is a word character
WordBoundary(text, i) == IsWordAt(text, i - 1) # IsWordAt(text, i)

NoMatch == [index |-> -1, length |-> 0]

OperatorMatchAtNoTrailingBoundary(text, i) ==
    /\ WordBoundary(text, i)
    /\ i + 2 < Len(text)
    /\ CharAt(text, i) \in SpaceChars
    /\ CharAt(text, i + 1) \in OperatorClass
    /\ CharAt(text, i + 2) \in SpaceChars
\* the operator pattern /\b\s[...]\s\b/ (server.ts:137) matches at offset i
OperatorMatchAt(text, i) ==
    /\ WordBoundary(text, i)
    /\ i + 2 < Len(text)
    /\ CharAt(text, i) \in SpaceChars
    /\ CharAt(text, i + 1) \in OperatorClass
    /\ CharAt(text, i + 2) \in SpaceChars
    /\ WordBoundary(text, i + 3)

\* pattern.exec(text) of the global operator pattern with pattern.lastIndex = lastIndex
ExecOperator(text, lastIndex) ==
    LET at == {i \in lastIndex..(Len(text) - 1) : OperatorMatchAt(text, i)}
    IN  IF at = {} THEN NoMatch ELSE [index |-> Min(at), length |-> 3]

\* the lengths k with which /\b[A-Z]{2,}\b/ can match at offset i
UpperMatchLengths(text, i) ==
    {k \in 2..(Len(text) - i) :
        /\ WordBoundary(text, i)
        /\ \A j \in 0..(k - 1) : CharAt(text, i + j) \in UpperLetters
        /\ WordBoundary(text, i + k)}

\* pattern.exec(text) of the global uppercase pattern; {2,} is greedy
ExecUpper(text, lastIndex) ==
    LET at == {i \in lastIndex..(Len(text) - 1) : UpperMatchLengths(text, i) # {}}
    IN  IF at = {} THEN NoMatch
        ELSE [index |-> Min(at), length |-> Max(UpperMatchLengths(text, Min(at)))]

\* TextDocument.positionAt: the offset is clamped into the text, then split
\* into line and column
positionAt(text, offset) ==
    LET o  == IF offset < 0 THEN 0 ELSE IF offset > Len(text) THEN Len(text) ELSE offset
        nl == {j \in 1..o : text[j] = "\n"}
    IN  [line |-> Cardinality(nl),
         character |-> o - (IF nl = {} THEN 0 ELSE Max(nl))]

Error == "Error"
Warning == "Warning"
MessageSuffix == <<" is surrounded by spaces.">>

\* the Diagnostic literal both loops build (server.ts:145-153, 174-182)
MakeDiagnostic(severity, text, m) ==
    [severity |-> severity,
     range    |-> [start |-> positionAt(text, m.index - 1),
                   end   |-> positionAt(text, m.index + m.length + 1)],
     message  |-> SubSeq(text, m.index + 1, m.index + m.length) \o MessageSuffix,
     source   |-> "ex"]

\* the loop condition of the operator scan, after a match was found
ErrorLoopContinues(problems) == problems < ErrorScanLimit

RECURSIVE ErrorLoop(_, _, _, _)
ErrorLoop(text, lastIndex, problems, diagnostics) ==
    LET m == ExecOperator(text, lastIndex)
    IN  IF m.index >= 0 /\ ErrorLoopContinues(problems)
        THEN ErrorLoop(text, m.index + m.length, problems + 1,
                       Append(diagnostics, MakeDiagnostic(Error, text, m)))
        ELSE diagnostics

WarningLoopContinuesOffByOne(problems, settings) ==
    problems <= settings.maxNumberOfProblems
\* the loop condition of the uppercase scan, after a match was found
WarningLoopContinues(problems, settings) ==
    problems < settings.maxNumberOfProblems

RECURSIVE WarningLoop(_, _, _, _, _)
WarningLoop(text, lastIndex, problems, diagnostics, settings) ==
    LET m == ExecUpper(text, lastIndex)
    IN  IF m.index >= 0 /\ WarningLoopContinues(problems, settings)
        THEN WarningLoop(text, m.index + m.length, problems + 1,
                         Append(diagnostics, MakeDiagnostic(Warning, text, m)),
                         settings)
        ELSE diagnostics

ChangeContentCappedBySettings(text, settings) ==
    SubSeq(ErrorLoop(text, 0, 0, <<>>), 1,
           Min({settings.maxNumberOfProblems, Len(ErrorLoop(text, 0, 0, <<>>))}))
ChangeContentScansBoth(text, settings) ==
    ErrorLoop(text, 0, 0, <<>>) \o WarningLoop(text, 0, 0, <<>>, settings)
\* the diagnostics onDidChangeContent sends: the operator scan alone, the
\* settings it awaited are not used
onDidChangeContentDiagnostics(text, settings) == ErrorLoop(text, 0, 0, <<>>)

\* the diagnostics validateTextDocument sends
validateTextDocumentDiagnostics(text, settings) ==
    WarningLoop(text, 0, 0, <<>>, settings)

-----------------------------------------------------------------------------
(* The completion list *)

Function == "Function"
Keyword == "Keyword"
Color == "Color"
Variable == "Variable"

It(label, kind) == [label |-> label, kind |-> kind]

\* the array literal onCompletion returns (server.ts:201-626)
CompletionList == <<
    It("abs", Function), It("and", Function), It("angle", Function),
    It("ANOVA", Function), It("Ans", Function), It("Archive", Function),
    It("Asm", Function), It("AsmComp", Function), It("AsmPrgm", Function),
    It("augment", Function), It("AxesOff", Function), It("AxesOn", Function),
    It("a+bi", Function), It("bal", Function), It("binomcdf", Function),
    It("binompdf", Function), It("Boxplot", Function), It("checkTmr", Function),
    It("x2cdf", Function), It("x2pdf", Function), It("x2-Test", Function),
    It("Circle", Function), It("Clear", Function), It("ClockOff", Function),
    It("ClockOn", Function), It("ClrAllLists", Function), It("ClrDraw", Function),
    It("ClrHome", Function), It("ClrList", Function), It("ClrTable", Function),
    It("conj", Function), It("Connected", Function), It("CoordOff", Function),
    It("CoordOn", Function), It("cos", Function), It("cos-1", Function),
    It("cosh", Function), It("cosh-1", Function), It("CubicReg", Function),
    It("cumSum", Function), It("dayOfWk", Function), It("dbd", Function),
    It("<U+25B6>Dec", Function), It("Degree", Function), It("DependAsk", Function),
    It("DependAuto", Function), It("det", Function), It("DiagnosticOff", Function),
    It("DiagnosticOn", Function), It("dim", Function), It("Disp", Function),
    It("DispGraph", Function), It("DispTable", Function), It("<U+25B6>DMS", Function),
    It("Dot", Function), It("DrawF", Function), It("DrawInv", Function),
    It("e", Function), It("e^", Function), It("E", Function),
    It("<U+25B6>Eff", Function), It("Eng", Function), It("Equ<U+25B6>String", Function),
    It("expr", Function), It("ExprOff", Function), It("ExprOn", Function),
    It("Fcdf", Function), It("Fill", Function), It("Fix", Function),
    It("Float", Function), It("fMax", Function), It("fMin", Function),
    It("fnInt", Function), It("FnOff", Function), It("FnOn", Function),
    It("fPart", Function), It("Fpdf", Function), It("<U+25B6>Frac", Function),
    It("Full", Function), It("Func", Function), It("GarbageCollect", Function),
    It("gcd", Function), It("geometcdf", Function), It("geometpdf", Function),
    It("Get", Function), It("GetCalc", Function), It("GetDate", Function),
    It("getDtFmt", Function), It("getDtStr", Function), It("GetTime", Function),
    It("getTmFmt", Function), It("getTmStr", Function), It("getKey", Function),
    It("GridOff", Function), It("GridOn", Function), It("G-T", Function),
    It("Histogram", Function), It("Horiz", Function), It("Horizontal", Function),
    It("i", Function), It("identity", Function), It("imag", Function),
    It("IndpntAsk", Function), It("IndpntAuto", Function), It("Input", Function),
    It("inString", Function), It("int", Function), It("<U+03A3>Int", Function),
    It("intersect", Function), It("invNorm", Function), It("iPart", Function),
    It("irr", Function), It("isClockOn", Function), It("L", Function),
    It("LabelOff", Function), It("LabelOn", Function), It("lcm", Function),
    It("length", Function), It("Line", Function), It("LinReg", Function),
    It("LinReg", Function), It("LinRegTTest", Function), It("<U+2206>List", Function),
    It("List<U+25B6>matr", Function), It("ln", Function), It("LnReg", Function),
    It("log", Function), It("Logistic", Function), It("Matr<U+25B6>list", Function),
    It("max", Function), It("mean", Function), It("median", Function),
    It("Med-Med", Function), It("min", Function), It("ModBoxplot", Function),
    It("nCr", Function), It("nDeriv", Function), It("<U+25B6>Nom", Function),
    It("Normal", Function), It("normalcdf", Function), It("normalpdf", Function),
    It("NormProbPlot", Function), It("not", Function), It("nPr", Function),
    It("npv", Function), It("or", Function), It("Output", Function),
    It("Param", Function), It("Plot1", Function), It("Plot2", Function),
    It("Plot3", Function), It("PlotsOff", Function), It("PlotsOn", Function),
    It("Pmt_Bgn", Function), It("Pmt_End", Function), It("poissoncdf", Function),
    It("poissonpdf", Function), It("Polar", Function), It("<U+25B6>Polar", Function),
    It("PolarGC", Function), It("<U+2211>Prn", Function), It("prod", Function),
    It("Prompt", Function), It("1-PropZInt", Function), It("2-PropZInt", Function),
    It("1-PropZTest", Function), It("2-PropZTest", Function), It("Pt-Change", Function),
    It("Pt-Off", Function), It("Pt-On", Function), It("PwrReg", Function),
    It("Pxl-Change", Function), It("Pxl-Off", Function), It("Pxl-On", Function),
    It("Pxl-Test", Function), It("P<U+25B6>Rx", Function), It("P<U+25B6>Ry", Function),
    It("QuadReg", Function), It("QuartReg", Function), It("Radian", Function),
    It("rand", Function), It("randBin", Function), It("randInt", Function),
    It("randM", Function), It("randNorm", Function), It("re^<U+03B8>i", Function),
    It("Real", Function), It("real", Function), It("RecallGDB", Function),
    It("RecallPic", Function), It("<U+25B6>Rect", Function), It("RectGC", Function),
    It("ref", Function), It("round", Function), It("*row", Function),
    It("row", Function), It("row+", Function), It("*row+", Function),
    It("row+", Function), It("rowSwap", Function), It("rref", Function),
    It("R<U+25B6>Pr", Function), It("R<U+25B6>P<U+03B8>", Function), It("2-SampFTest", Function),
    It("2-SampTInt", Function), It("2-SampTTest", Function), It("2-SampZInt", Function),
    It("2-SampZTest", Function), It("Scatter", Function), It("Sci", Function),
    It("Select", Function), It("Send", Function), It("seq", Function),
    It("Seq", Function), It("Sequential", Function), It("setDate", Function),
    It("setDtFmt", Function), It("setTime", Function), It("setTmFmt", Function),
    It("SetUpEditor", Function), It("Shade", Function), It("Shadex2", Function),
    It("ShadeF", Function), It("ShadeNorm", Function), It("Shade_t", Function),
    It("Simul", Function), It("sin", Function), It("sin-1", Function),
    It("sinh", Function), It("sinh-1", Function), It("SinReg", Function),
    It("solve", Function), It("SortA", Function), It("SortD", Function),
    It("startTmr", Function), It("stdDev", Function), It("StoreGDB", Function),
    It("StorePic", Function), It("String<U+25BA>Equ", Function), It("sub", Function),
    It("sum", Function), It("tan", Function), It("tan-1", Function),
    It("Tangent", Function), It("tanh", Function), It("tanh-1", Function),
    It("tcdf", Function), It("Text", Function), It("Time", Function),
    It("timeCnv", Function), It("TInterval", Function), It("tpdf", Function),
    It("T-Test", Function), It("tmv_FV", Function), It("tmv_I%", Function),
    It("tmv_N", Function), It("tmv_Pmt", Function), It("tmv_PV", Function),
    It("UnArchive", Function), It("uvAxes", Function), It("uwAxes", Function),
    It("1-Var", Function), It("2-Var", Function), It("variance", Function),
    It("Vertical", Function), It("vwAxes", Function), It("Web", Function),
    It("xor", Function), It("xyLine", Function), It("ZBox", Function),
    It("ZDecimal", Function), It("ZInteger", Function), It("ZInterval", Function),
    It("Zoom", Function), It("Zoom", Function), It("ZoomFit", Function),
    It("ZoomRcl", Function), It("ZoomStat", Function), It("ZoomSto", Function),
    It("ZPrevious", Function), It("ZSquare", Function), It("ZStandard", Function),
    It("Z-Test", Function), It("ZTrig", Function), It("Input", Function),
    It("Prompt", Function), It("Disp", Function), It("DispGraph", Function),
    It("DispTable", Function), It("If", Keyword), It("Then", Keyword),
    It("Else", Keyword), It("For", Keyword), It("While", Keyword),
    It("Repeat", Keyword), It("End", Keyword), It("Pause", Keyword),
    It("Lbl", Keyword), It("Goto", Keyword), It("Wait", Keyword),
    It("IS>", Keyword), It("DS<", Keyword), It("Menu", Keyword),
    It("prgm", Keyword), It("Return", Keyword), It("Stop", Keyword),
    It("DelVar", Keyword), It("GraphStyle", Keyword), It("GraphColor", Keyword),
    It("OpenLib", Keyword), It("ExecLib", Keyword), It("BLUE", Color),
    It("RED", Color), It("BLACK", Color), It("MAGENTA", Color),
    It("GREEN", Color), It("ORANGE", Color), It("BROWN", Color),
    It("NAVY", Color), It("LTBLUE", Color), It("YELLOW", Color),
    It("LTGRAY", Color), It("MEDGREY", Color), It("GRAY", Color),
    It("DARKGRAY", Color), It("A", Variable), It("B", Variable),
    It("C", Variable), It("D", Variable), It("E", Variable),
    It("F", Variable), It("G", Variable), It("H", Variable),
    It("I", Variable), It("J", Variable), It("K", Variable),
    It("L", Variable), It("M", Variable), It("N", Variable),
    It("O", Variable), It("P", Variable), It("Q", Variable),
    It("R", Variable), It("S", Variable), It("T", Variable),
    It("U", Variable), It("V", Variable), It("W", Variable),
    It("X", Variable), It("Y", Variable), It("Z", Variable),
    It("<U+03B8>", Variable), It("u", Variable), It("v", Variable),
    It("w", Variable), It("L1", Variable), It("L2", Variable),
    It("L3", Variable), It("L4", Variable), It("L5", Variable),
    It("L6", Variable), It("Str0", Variable), It("Str1", Variable),
    It("Str2", Variable), It("Str3", Variable), It("Str4", Variable),
    It("Str5", Variable), It("Str6", Variable), It("Str7", Variable),
    It("Str8", Variable), It("Str9", Variable), It("Pic0", Variable),
    It("Pic1", Variable), It("Pic2", Variable), It("Pic3", Variable),
    It("Pic4", Variable), It("Pic5", Variable), It("Pic6", Variable),
    It("Pic7", Variable), It("Pic8", Variable), It("Pic9", Variable),
    It("GDB0", Variable), It("GDB1", Variable), It("GDB2", Variable),
    It("GDB3", Variable), It("GDB4", Variable), It("GDB5", Variable),
    It("GDB6", Variable), It("Image0", Variable), It("Image1", Variable),
    It("Image2", Variable), It("Image3", Variable), It("Image4", Variable),
    It("Image5", Variable), It("Image6", Variable), It("Image7", Variable),
    It("Image8", Variable), It("Image9", Variable), It("Y0", Variable),
    It("Y1", Variable), It("Y2", Variable), It("Y3", Variable),
    It("Y4", Variable), It("Y5", Variable), It("Y6", Variable),
    It("Y7", Variable), It("Y8", Variable), It("Y9", Variable),
    It("r1", Variable), It("r2", Variable), It("r3", Variable),
    It("r4", Variable), It("r5", Variable), It("r6", Variable),
    It("[A]", Variable), It("[B]", Variable), It("[C]", Variable),
    It("[D]", Variable), It("[E]", Variable), It("[F]", Variable),
    It("[G]", Variable), It("[H]", Variable), It("[I]", Variable),
    It("[J]", Variable)
>>

onCompletionUsesPosition(params) ==
    SubSeq(CompletionList, 1, Len(CompletionList) - params.position.character)
\* connection.onCompletion: the parameter is ignored
onCompletion(params) == CompletionList

onCompletionResolveSetsKind(item) == [item EXCEPT !.kind = Function]
\* connection.onCompletionResolve: the item is returned as it came
onCompletionResolve(item) == item

\* the items the client asks to resolve: one of the list, one that is not
Items == {It("[A]", Variable), It("notInTheList", Keyword)}
\* no resolve request was answered yet
NoItem == It("", "")

-----------------------------------------------------------------------------
(* Texts, settings, tasks *)

TextABplusCD == <<"A", "B", " ", "+", " ", "C", "D">>
TextPipe == <<"a", " ", "|", " ", "b">>
\* the texts the client sends in Spec
Texts == {TextABplusCD, TextPipe}

\* the characters of the exhaustive texts: an uppercase letter, another word
\* character, a space, an operator, a character of no class
ScanAlphabet == {"A", "b", " ", "+", "("}
RECURSIVE TextsOfLength(_)
TextsOfLength(n) ==
    IF n = 0 THEN {<<>>}
    ELSE {Append(t, c) : t \in TextsOfLength(n - 1), c \in ScanAlphabet}
ScanTexts == UNION {TextsOfLength(n) : n \in 0..MaxTextLen}

\* server.ts:82-84
ExampleSettings(n) == [maxNumberOfProblems |-> n]
\* server.ts:89
defaultSettings == ExampleSettings(DefaultMaxNumberOfProblems)
\* the value of a promise that is still pending
NoSettings == ExampleSettings(-1)
\* the answer null of a client that has no value for the section
Null == [null |-> TRUE]

\* change.settings.languageServerExample: absent, or a settings object
NoSection == [present |-> FALSE, value |-> NoSettings]
SectionsOver(caps) ==
    {NoSection} \cup {[present |-> TRUE, value |-> ExampleSettings(n)] : n \in caps}
Sections == SectionsOver(ClientCaps)

\* the global settings a notification leaves behind (server.ts:100-102)
NewGlobalSettingsNoFallback(section) ==
    IF section.present THEN section.value ELSE globalSettings
NewGlobalSettings(section) ==
    IF section.present THEN section.value ELSE defaultSettings

Positions == {[line |-> 0, character |-> c] : c \in 0..1}

\* A continuation of onDidChangeContent ("change") or validateTextDocument
\* ("validate") suspended at its await.  doc is its TextDocument reference:
\* live while that object is the one the manager holds for uri (its text is
\* then the manager's, updated in place by every change), and the text the
\* object had when it was closed otherwise (nothing updates it after that).
\* promise is the request awaited, 0 for Promise.resolve(globalSettings),
\* whose value is in settings.
Task(kind, uri, promise, settings) ==
    [kind |-> kind, uri |-> uri, doc |-> [live |-> TRUE, text |-> <<>>],
     promise |-> promise, settings |-> settings]

IsOpen(u) == \E i \in 1..Len(documents) : documents[i].uri = u
OpenURIs == {documents[i].uri : i \in 1..Len(documents)}
\* documents.get(u).getText()
TextOf(u) == documents[CHOOSE i \in 1..Len(documents) : documents[i].uri = u].text

CachedURIs == {u \in URIs : documentSettings[u] # 0}
PendingRequests == {i \in 1..Len(requests) : ~requests[i].resolved}

NoPublish ==
    [kind |-> "none", uri |-> "", diagnostics |-> <<>>, text |-> <<>>,
     current |-> [open |-> FALSE, text |-> <<>>], settings |-> NoSettings,
     promise |-> 0]

-----------------------------------------------------------------------------
(* getDocumentSettings and the start of a scan, as functions of the part   *)
(* of the state they read and write:                                       *)
(* st = [cache, requests, waiting, microtasks, global]                     *)

getDocumentSettingsIgnoresCapability(st, resource) ==
    IF st.cache[resource] # 0
    THEN [st |-> st, promise |-> st.cache[resource]]
    ELSE LET id == Len(st.requests) + 1
         IN  [st |-> [st EXCEPT
                       !.requests = Append(@, [scopeUri |-> resource,
                                               resolved |-> FALSE,
                                               value |-> NoSettings]),
                       !.cache[resource] = id],
              promise |-> id]

getDocumentSettingsNeverCaches(st, resource) ==
    IF ~hasConfigurationCapability
    THEN [st |-> st, promise |-> 0]
    ELSE LET id == Len(st.requests) + 1
         IN  [st |-> [st EXCEPT
                       !.requests = Append(@, [scopeUri |-> resource,
                                               resolved |-> FALSE,
                                               value |-> NoSettings]),
                       !.cache[resource] = id],
              promise |-> id]

\* server.ts:109-122; the result is the state and the promise returned
getDocumentSettings(st, resource) ==
    IF ~hasConfigurationCapability
    THEN [st |-> st, promise |-> 0]
    ELSE IF st.cache[resource] # 0
    THEN [st |-> st, promise |-> st.cache[resource]]
    ELSE LET id == Len(st.requests) + 1
         IN  [st |-> [st EXCEPT
                       !.requests = Append(@, [scopeUri |-> resource,
                                               resolved |-> FALSE,
                                               value |-> NoSettings]),
                       !.cache[resource] = id],
              promise |-> id]

\* `const settings = await getDocumentSettings(textDocument.uri)` of either
\* scan (server.ts:134, 163): the continuation becomes a microtask when the
\* promise is resolved and waits for the client's answer otherwise
StartScan(st, kind, u) ==
    LET r == getDocumentSettings(st, u)
        p == r.promise
        t == Task(kind, u, p, IF p = 0 THEN st.global ELSE NoSettings)
    IN  IF p = 0 \/ r.st.requests[p].resolved
        THEN [r.st EXCEPT !.microtasks = Append(@, t)]
        ELSE [r.st EXCEPT !.waiting = Append(@, t)]

\* documents.all().forEach(validateTextDocument) (server.ts:106)
RECURSIVE ValidateAll(_, _)
ValidateAll(st, docs) ==
    IF docs = <<>> THEN st
    ELSE ValidateAll(StartScan(st, "validate", Head(docs).uri), Tail(docs))

Current == [cache |-> documentSettings, requests |-> requests, waiting |-> waiting,
            microtasks |-> microtasks, global |-> globalSettings]

\* the state a handler leaves behind
Becomes(st) ==
    /\ documentSettings' = st.cache
    /\ requests' = st.requests
    /\ waiting' = st.waiting
    /\ microtasks' = st.microtasks
    /\ globalSettings' = st.global

\* the model follows a handler only while its requests and suspended
\* continuations stay within the bounds
WithinBounds(st) == Len(st.requests) <= MaxRequests /\ Len(st.waiting) <= MaxTasks

\* a message of the client is handled when the microtask queue is empty
Idle == initialized /\ microtasks = <<>>

-----------------------------------------------------------------------------
(* The state machine *)

Init ==
    /\ initialized = FALSE
    /\ hasConfigurationCapability = FALSE
    /\ globalSettings = defaultSettings
    /\ documentSettings = [u \in URIs |-> 0]
    /\ documents = <<>>
    /\ requests = <<>>
    /\ waiting = <<>>
    /\ microtasks = <<>>
    /\ published = [u \in URIs |-> <<>>]
    /\ lastPublish = NoPublish
    /\ completions = <<>>
    /\ resolved = NoItem

\* connection.onInitialize (server.ts:33-67)
Initialize(configuration) ==
    /\ ~initialized
    /\ initialized' = TRUE
    /\ hasConfigurationCapability' = configuration
    /\ UNCHANGED <<globalSettings, documentSettings, documents, requests, waiting,
                   microtasks, published, lastPublish, completions, resolved>>

\* textDocument/didOpen: the manager stores a new TextDocument and fires
\* onDidChangeContent (server.ts:131-134)
DidOpen(u, text) ==
    /\ Idle
    /\ ~IsOpen(u)
    /\ documents' = Append(documents, [uri |-> u, text |-> text])
    /\ LET st == StartScan(Current, "change", u)
       IN  WithinBounds(st) /\ Becomes(st)
    /\ UNCHANGED <<initialized, hasConfigurationCapability, published, lastPublish,
                   completions, resolved>>

\* textDocument/didChange: the manager updates the TextDocument in place and
\* fires onDidChangeContent (server.ts:131-134)
DidChange(u, text) ==
    /\ Idle
    /\ IsOpen(u)
    /\ text # TextOf(u)
    /\ documents' = [i \in 1..Len(documents) |->
                        IF documents[i].uri = u
                        THEN [documents[i] EXCEPT !.text = text]
                        ELSE documents[i]]
    /\ LET st == StartScan(Current, "change", u)
       IN  WithinBounds(st) /\ Becomes(st)
    /\ UNCHANGED <<initialized, hasConfigurationCapability, published, lastPublish,
                   completions, resolved>>

DidCloseKeepsSettings(u) ==
    /\ Idle
    /\ IsOpen(u)
    /\ documents' = SelectSeq(documents, LAMBDA d : d.uri # u)
    /\ waiting' = [i \in 1..Len(waiting) |->
                      IF waiting[i].uri = u /\ waiting[i].doc.live
                      THEN [waiting[i] EXCEPT
                              !.doc = [live |-> FALSE, text |-> TextOf(u)]]
                      ELSE waiting[i]]
    /\ UNCHANGED <<initialized, hasConfigurationCapability, globalSettings, requests,
                   documentSettings, microtasks, published, lastPublish, completions,
                   resolved>>

\* textDocument/didClose: the manager drops the TextDocument and fires
\* onDidClose (server.ts:125-127); the continuations that hold the object
\* keep it, with the text it has now
DidClose(u) ==
    /\ Idle
    /\ IsOpen(u)
    /\ documents' = SelectSeq(documents, LAMBDA d : d.uri # u)
    /\ documentSettings' = [documentSettings EXCEPT ![u] = 0]
    /\ waiting' = [i \in 1..Len(waiting) |->
                      IF waiting[i].uri = u /\ waiting[i].doc.live
                      THEN [waiting[i] EXCEPT
                              !.doc = [live |-> FALSE, text |-> TextOf(u)]]
                      ELSE waiting[i]]
    /\ UNCHANGED <<initialized, hasConfigurationCapability, globalSettings, requests,
                   microtasks, published, lastPublish, completions, resolved>>

DidChangeConfigurationKeepsCache(section, maxRequests) ==
    /\ Idle
    /\ LET st == IF hasConfigurationCapability
                 THEN Current
                 ELSE [Current EXCEPT !.global = NewGlobalSettings(section)]
           after == ValidateAll(st, documents)
       IN  /\ Len(after.requests) <= maxRequests /\ Len(after.waiting) <= MaxTasks
           /\ Becomes(after)
    /\ UNCHANGED <<initialized, hasConfigurationCapability, documents, published,
                   lastPublish, completions, resolved>>

\* connection.onDidChangeConfiguration (server.ts:95-107), followed while the
\* requests sent stay within maxRequests
DidChangeConfigurationUpTo(section, maxRequests) ==
    /\ Idle
    /\ LET st == IF hasConfigurationCapability
                 THEN [Current EXCEPT !.cache = [u \in URIs |-> 0]]
                 ELSE [Current EXCEPT !.global = NewGlobalSettings(section)]
           after == ValidateAll(st, documents)
       IN  /\ Len(after.requests) <= maxRequests /\ Len(after.waiting) <= MaxTasks
           /\ Becomes(after)
    /\ UNCHANGED <<initialized, hasConfigurationCapability, documents, published,
                   lastPublish, completions, resolved>>

DidChangeConfiguration(section) == DidChangeConfigurationUpTo(section, MaxRequests)

\* the client's answer to workspace/configuration request id: the promise
\* resolves and the continuations awaiting it are queued in the order in
\* which they awaited
ConfigurationResponse(id, settings) ==
    /\ Idle
    /\ id \in PendingRequests
    /\ requests' = [requests EXCEPT ![id] = [@ EXCEPT !.resolved = TRUE,
                                                      !.value = settings]]
    /\ microtasks' = SelectSeq(waiting, LAMBDA t : t.promise = id)
    /\ waiting' = SelectSeq(waiting, LAMBDA t : t.promise # id)
    /\ UNCHANGED <<initialized, hasConfigurationCapability, globalSettings,
                   documentSettings, documents, published, lastPublish, completions, resolved>>

\* the value a continuation receives from the promise it awaited
TaskSettings(t) == IF t.promise = 0 THEN t.settings ELSE requests[t.promise].value
\* the text of the TextDocument object the continuation holds
TaskText(t) == IF t.doc.live THEN TextOf(t.uri) ELSE t.doc.text
\* validateTextDocument reads settings.maxNumberOfProblems after a match
\* (server.ts:172), a TypeError when the client answered null; the change
\* scan never reads its settings
validateTextDocumentThrows(text, settings) ==
    settings = Null /\ ExecUpper(text, 0).index >= 0
TaskThrows(t) ==
    t.kind = "validate" /\ validateTextDocumentThrows(TaskText(t), TaskSettings(t))

\* the rest of a scan after its await (server.ts:136-158, 166-187)
RunMicrotask ==
    /\ microtasks # <<>>
    /\ LET t        == Head(microtasks)
           settings == TaskSettings(t)
           text     == TaskText(t)
           diagnostics == IF t.kind = "change"
                          THEN onDidChangeContentDiagnostics(text, settings)
                          ELSE validateTextDocumentDiagnostics(text, settings)
       IN  IF TaskThrows(t)
           THEN UNCHANGED <<published, lastPublish>>
           ELSE /\ published' = [published EXCEPT ![t.uri] = diagnostics]
                /\ lastPublish' = [kind |-> t.kind, uri |-> t.uri,
                                   diagnostics |-> diagnostics, text |-> text,
                                   current |-> IF IsOpen(t.uri)
                                               THEN [open |-> TRUE, text |-> TextOf(t.uri)]
                                               ELSE [open |-> FALSE, text |-> <<>>],
                                   settings |-> settings, promise |-> t.promise]
    /\ microtasks' = Tail(microtasks)
    /\ UNCHANGED <<initialized, hasConfigurationCapability, globalSettings,
                   documentSettings, documents, requests, waiting, completions, resolved>>

\* textDocument/completion (server.ts:196-628)
Completion(u, position) ==
    /\ Idle
    /\ completions' = onCompletion([textDocument |-> [uri |-> u], position |-> position])
    /\ UNCHANGED <<initialized, hasConfigurationCapability, globalSettings,
                   documentSettings, documents, requests, waiting, microtasks,
                   published, lastPublish, resolved>>

\* completionItem/resolve (server.ts:632-634)
CompletionResolve(item) ==
    /\ Idle
    /\ resolved' = onCompletionResolve(item)
    /\ UNCHANGED <<initialized, hasConfigurationCapability, globalSettings,
                   documentSettings, documents, requests, waiting, microtasks,
                   published, lastPublish, completions>>

Next ==
    \/ \E c \in BOOLEAN : Initialize(c)
    \/ \E u \in URIs, t \in Texts : DidOpen(u, t)
    \/ \E u \in URIs, t \in Texts : DidChange(u, t)
    \/ \E u \in URIs : DidClose(u)
    \/ \E s \in Sections : DidChangeConfiguration(s)
    \/ \E i \in 1..MaxRequests, n \in ClientCaps :
          ConfigurationResponse(i, ExampleSettings(n))
    \/ RunMicrotask
    \/ \E u \in URIs, p \in Positions : Completion(u, p)

Spec == Init /\ [][Next]_vars

\* The scans on every text up to MaxTextLen, for a client without the
\* workspace/configuration capability: one document, opened with any text,
\* and configuration notifications that set the cap.
InitScan ==
    /\ initialized = TRUE
    /\ hasConfigurationCapability = FALSE
    /\ globalSettings = defaultSettings
    /\ documentSettings = [u \in URIs |-> 0]
    /\ documents = <<>>
    /\ requests = <<>>
    /\ waiting = <<>>
    /\ microtasks = <<>>
    /\ published = [u \in URIs |-> <<>>]
    /\ lastPublish = NoPublish
    /\ completions = <<>>
    /\ resolved = NoItem

NextScan ==
    \/ ~IsOpen("u1") /\ \E t \in ScanTexts : DidOpen("u1", t)
    \/ \E s \in Sections : DidChangeConfiguration(s)
    \/ RunMicrotask

SpecScan == InitScan /\ [][NextScan]_vars

\* A session on one document in which the client also resolves completion
\* items.
NextResolve ==
    \/ \E c \in BOOLEAN : Initialize(c)
    \/ \E t \in Texts : DidOpen("u1", t)
    \/ \E t \in Texts : DidChange("u1", t)
    \/ DidClose("u1")
    \/ \E s \in Sections : DidChangeConfiguration(s)
    \/ \E i \in 1..MaxRequests, n \in ClientCaps :
          ConfigurationResponse(i, ExampleSettings(n))
    \/ RunMicrotask
    \/ \E p \in Positions : Completion("u1", p)
    \/ \E item \in Items : CompletionResolve(item)

SpecResolve == Init /\ [][NextResolve]_vars

\* Sessions of a client with the configuration capability in which a
\* configuration notification can revalidate every document: opens are
\* followed up to MaxRequests requests, as in Spec, and a notification may
\* add the request of each open document to them.
RevalidationRequests == MaxRequests + Cardinality(URIs)

\* what a client may answer to workspace/configuration: the section or null
ConfigurationAnswers == {ExampleSettings(1), Null}
NextConfig ==
    \/ Initialize(TRUE)
    \/ \E u \in URIs : DidOpen(u, TextABplusCD)
    \/ \E u \in URIs : DidClose(u)
    \/ DidChangeConfigurationUpTo(NoSection, RevalidationRequests)
    \/ \E i \in 1..RevalidationRequests, settings \in ConfigurationAnswers :
          ConfigurationResponse(i, settings)
    \/ RunMicrotask

SpecConfig == Init /\ [][NextConfig]_vars


-----------------------------------------------------------------------------
(* Properties *)

Severities(diagnostics) == {diagnostics[i].severity : i \in 1..Len(diagnostics)}
Errors(diagnostics) == SelectSeq(diagnostics, LAMBDA d : d.severity = Error)
Warnings(diagnostics) == SelectSeq(diagnostics, LAMBDA d : d.severity = Warning)
\* every match of a pattern, the cap out of the way
AllOperatorMatches(text) == ErrorLoop(text, 0, 0, <<>>)
AllUpperMatches(text) == WarningLoop(text, 0, 0, <<>>, ExampleSettings(Len(text) + 1))
IsOpenAfter(u) == \E i \in 1..Len(documents') : documents'[i].uri = u
\* the handler of a textDocument or configuration notification runs
LaterEvent ==
    \/ \E u \in URIs, t \in Texts : DidOpen(u, t)
    \/ \E u \in URIs, t \in Texts : DidChange(u, t)
    \/ \E u \in URIs : DidClose(u)
    \/ \E s \in Sections : DidChangeConfiguration(s)

\* C1: the diagnostics published after an open or a change hold one Warning
\* per uppercase run and one Error per space-surrounded operator (the cap not
\* reached); for the text "AB + CD" they are the warnings for AB and CD and
\* the error for the operator, 3 in all.
C1_ChangePublishesBothScans ==
    (lastPublish.kind = "change"
        /\ lastPublish.settings.maxNumberOfProblems > Len(lastPublish.text))
    => /\ Errors(lastPublish.diagnostics) = AllOperatorMatches(lastPublish.text)
       /\ Warnings(lastPublish.diagnostics) = AllUpperMatches(lastPublish.text)
       /\ lastPublish.text = TextABplusCD => Len(lastPublish.diagnostics) = 3

\* C2: any two completion responses are the same list, whatever the URI, the
\* position and the events between the two requests.
C2_CompletionSameForEveryRequest ==
    [][completions # <<>> => completions' = completions]_vars

C2_Witness ==
    /\ completions # <<>>
    /\ lastPublish.kind = "validate"
    /\ Len(documents) = 1
    /\ waiting # <<>>

\* C3: a publish of the uppercase scan holds at most maxNumberOfProblems
\* warnings, maxNumberOfProblems being the settings the scan awaited.
C3_WarningsWithinCap ==
    lastPublish.kind = "validate"
    => Len(Warnings(lastPublish.diagnostics)) <= lastPublish.settings.maxNumberOfProblems

\* the text holds more uppercase runs than the cap allows
C3_Witness ==
    /\ lastPublish.kind = "validate"
    /\ Len(AllUpperMatches(lastPublish.text)) > lastPublish.settings.maxNumberOfProblems
    /\ Len(lastPublish.diagnostics) = lastPublish.settings.maxNumberOfProblems

NoUppercaseRun(text) ==
    ~\E i \in 1..(Len(text) - 1) : text[i] \in UpperLetters /\ text[i + 1] \in UpperLetters
NoSpacedOperator(text) ==
    ~\E i \in 2..(Len(text) - 1) :
        text[i] \in OperatorChars /\ text[i - 1] = " " /\ text[i + 1] = " "

\* C4: for a text with no run of two uppercase letters and no operator
\* character between two spaces, every published diagnostics list is empty.
C4_CleanTextPublishesNothing ==
    (lastPublish.kind # "none"
        /\ NoUppercaseRun(lastPublish.text) /\ NoSpacedOperator(lastPublish.text))
    => lastPublish.diagnostics = <<>>

\* C5 as stated: between two events the keys of documentSettings are the
\* URIs of the open documents, with and without the configuration capability.
C5_CacheKeysAreOpenDocuments ==
    microtasks = <<>> => CachedURIs = OpenURIs

\* C5: between two events the keys of documentSettings are the URIs of the
\* open documents when the client has the configuration capability, and
\* documentSettings is empty when it has not.
C5_CacheKeysAreOpenDocumentsWithCapability ==
    microtasks = <<>>
    => IF hasConfigurationCapability THEN CachedURIs = OpenURIs ELSE CachedURIs = {}

\* one document is open and cached, the other was open and is closed
C5_Witness ==
    /\ hasConfigurationCapability
    /\ microtasks = <<>>
    /\ OpenURIs = {"u1"}
    /\ CachedURIs = {"u1"}
    /\ \E i \in 1..Len(requests) : requests[i].scopeUri = "u2"

\* C6: a publish for a URI is computed from the text the document of that
\* URI has when it is published.
C6_PublishFromCurrentText ==
    (lastPublish.kind # "none" /\ lastPublish.current.open)
    => lastPublish.text = lastPublish.current.text

C8_ScanPublishesBeforeNextEvent ==
    [][LaterEvent
        => /\ microtasks = <<>>
           /\ \A i \in 1..Len(waiting) : waiting[i].kind # "change"]_vars

\* C8: when the handler of a later event starts, the scans of change events
\* that have not published are those awaiting an unanswered configuration
\* request; a scan whose settings are a resolved promise (no configuration
\* capability, or a cached request already answered) has published.
C8_ScanPublishesBeforeNextEventUnlessRequestPending ==
    [][LaterEvent
        => /\ microtasks = <<>>
           /\ \A i \in 1..Len(waiting) :
                waiting[i].kind = "change"
                => /\ hasConfigurationCapability
                   /\ waiting[i].promise \in PendingRequests]_vars

\* without the capability the scan of an open has published, nothing waits
C8_Witness ==
    /\ ~hasConfigurationCapability
    /\ lastPublish.kind = "change"
    /\ lastPublish.uri = "u1"
    /\ microtasks = <<>> /\ waiting = <<>>
    /\ OpenURIs = {"u1", "u2"}
    /\ published["u2"] = <<>>

\* C9: the cap of a warning scan of u is the client's answer to the request
\* scoped to u when the client has the configuration capability, and the
\* global settings otherwise: 1000 at first, the languageServerExample
\* section of the latest didChangeConfiguration, 1000 when it had none.
C9_CapOfWarningScan ==
    [][/\ ~initialized => globalSettings = ExampleSettings(1000)
       /\ (RunMicrotask /\ Head(microtasks).kind = "validate")
          => IF hasConfigurationCapability
             THEN /\ lastPublish'.promise \in 1..Len(requests)
                  /\ requests[lastPublish'.promise].scopeUri = lastPublish'.uri
                  /\ requests[lastPublish'.promise].resolved
                  /\ lastPublish'.settings = requests[lastPublish'.promise].value
             ELSE lastPublish'.settings = globalSettings
       /\ \A s \in Sections :
            (DidChangeConfiguration(s) /\ ~hasConfigurationCapability)
            => globalSettings' = IF s.present THEN s.value ELSE ExampleSettings(1000)
       /\ globalSettings' # globalSettings
          => /\ ~hasConfigurationCapability
             /\ \E s \in Sections : DidChangeConfiguration(s)
      ]_vars

\* a warning scan cut short by the cap the client answered with
C9_Witness ==
    /\ hasConfigurationCapability
    /\ lastPublish.kind = "validate"
    /\ lastPublish.settings = ExampleSettings(1)
    /\ lastPublish.text = TextABplusCD
    /\ Len(lastPublish.diagnostics) = 1

C11_ResolveReturnsItsItem ==
    [][\A item \in Items :
        CompletionResolve(item)
        => /\ resolved' = item
           /\ DOMAIN resolved' = DOMAIN item
           /\ documentSettings' = documentSettings
           /\ globalSettings' = globalSettings
           /\ published' = published
           /\ requests' = requests]_vars

\* an item that is not in the list was resolved while a settings request was
\* cached and diagnostics were published
C11_Witness ==
    /\ resolved = It("notInTheList", Keyword)
    /\ \A i \in 1..Len(CompletionList) : CompletionList[i] # resolved
    /\ CachedURIs = {"u1"}
    /\ published["u1"] # <<>>

\* the positions (from 1) of the operator characters with a space on each side
SpacedOperators(text) ==
    {i \in 2..(Len(text) - 1) :
        text[i] \in OperatorChars /\ text[i - 1] = " " /\ text[i + 1] = " "}
\* those whose spaces lie between two word characters
SpacedOperatorsBetweenWords(text) ==
    {i \in SpacedOperators(text) :
        /\ i - 2 >= 1 /\ text[i - 2] \in WordChars
        /\ i + 2 <= Len(text) /\ text[i + 2] \in WordChars}
\* the Error of the operator at position i of a one-line text: the match is
\* the operator with its two spaces, the range one character wider on each
\* side, cut to the text
ErrorOfOperator(text, i) ==
    [severity |-> Error,
     range    |-> [start |-> [line |-> 0,
                              character |-> IF i - 3 < 0 THEN 0 ELSE i - 3],
                   end   |-> [line |-> 0,
                              character |-> IF i + 2 > Len(text) THEN Len(text)
                                            ELSE i + 2]],
     message  |-> <<" ", text[i], " ", " is surrounded by spaces.">>,
     source   |-> "ex"]
TimesIn(diagnostics, d) == Cardinality({k \in 1..Len(diagnostics) : diagnostics[k] = d})

\* C12 as stated: the change scan publishes one Error for every operator
\* character with a space on each side, whatever lies beyond the spaces.
C12_ErrorForEverySpacedOperator ==
    lastPublish.kind = "change"
    => \A i \in SpacedOperators(lastPublish.text) :
          TimesIn(lastPublish.diagnostics, ErrorOfOperator(lastPublish.text, i)) = 1

\* C12: the change scan publishes one Error, with the message of the match,
\* for every operator character with a space on each side when a word
\* character lies before the first space and after the second, and none for
\* it when another character or an end of the document lies there.
C12_ErrorForSpacedOperatorBetweenWords ==
    lastPublish.kind = "change"
    => \A i \in SpacedOperators(lastPublish.text) :
          TimesIn(lastPublish.diagnostics, ErrorOfOperator(lastPublish.text, i))
            = IF i \in SpacedOperatorsBetweenWords(lastPublish.text) THEN 1 ELSE 0

\* an operator between two word characters
C12_Witness ==
    /\ lastPublish.kind = "change"
    /\ lastPublish.text = <<"A", " ", "+", " ", "b">>
    /\ Len(lastPublish.diagnostics) = 1

TaskKeys(tasks) == {<<tasks[i].kind, tasks[i].uri, tasks[i].promise>> : i \in 1..Len(tasks)}
\* the suspended validateTextDocument calls, each with the promise it awaits
ValidateKeys(w, m) == {k \in TaskKeys(w) \cup TaskKeys(m) : k[1] = "validate"}
ConfigurationNotification ==
    \E s \in Sections : DidChangeConfigurationUpTo(s, RevalidationRequests)

\* C13: a didChangeConfiguration of a client with the configuration
\* capability leaves in the cache only requests sent by its handler, one for
\* every open document, and starts one validateTextDocument per open
\* document that awaits that request; a suspended validateTextDocument keeps
\* its promise, and its publish uses the answer to it.
C13_NotificationRefetchesAndRevalidates ==
    [][/\ (hasConfigurationCapability /\ ConfigurationNotification)
          => /\ CachedURIs' = OpenURIs
             /\ \A u \in OpenURIs :
                  /\ documentSettings'[u] \in (Len(requests) + 1)..Len(requests')
                  /\ requests'[documentSettings'[u]] =
                       [scopeUri |-> u, resolved |-> FALSE, value |-> NoSettings]
             /\ waiting' = waiting \o
                  [i \in 1..Len(documents) |->
                      Task("validate", documents[i].uri,
                           documentSettings'[documents[i].uri], NoSettings)]
             /\ microtasks' = <<>>
       /\ ~ConfigurationNotification
          => ValidateKeys(waiting', microtasks') \subseteq ValidateKeys(waiting, microtasks)
       /\ (/\ hasConfigurationCapability /\ RunMicrotask
           /\ Head(microtasks).kind = "validate" /\ ~TaskThrows(Head(microtasks)))
          => /\ lastPublish'.kind = "validate"
             /\ lastPublish'.uri = Head(microtasks).uri
             /\ lastPublish'.promise = Head(microtasks).promise
             /\ lastPublish'.settings = requests[Head(microtasks).promise].value
      ]_vars

\* both documents were open at the notification; the warnings published for
\* one of them use the answer to the request sent by the notification, which
\* differs from the answer cached before it
C13_Witness ==
    /\ hasConfigurationCapability
    /\ Len(requests) = 4
    /\ OpenURIs = URIs
    /\ \A u \in URIs : documentSettings[u] \in {3, 4}
    /\ lastPublish.kind = "validate"
    /\ lastPublish.promise = documentSettings[lastPublish.uri]
    /\ \E i \in {1, 2} :
          /\ requests[i].scopeUri = lastPublish.uri
          /\ requests[i].resolved
          /\ requests[i].value # lastPublish.settings

\* the positions of the characters of the operator class that have one
\* whitespace character on each side and a word character beyond each
OperatorMatchPositions(text) ==
    {i \in 3..(Len(text) - 2) :
        /\ text[i] \in OperatorClass
        /\ text[i - 1] \in SpaceChars /\ text[i + 1] \in SpaceChars
        /\ text[i - 2] \in WordChars /\ text[i + 2] \in WordChars}

\* C14: a publish of the content-change scan holds Errors alone, at most
\* ErrorScanLimit of them, and as many as the text has operator matches
\* whatever maxNumberOfProblems the scan was given; a loop that has counted
\* ErrorScanLimit problems adds nothing.
C14_ErrorsIndependentOfSettings ==
    lastPublish.kind = "change"
    => /\ Errors(lastPublish.diagnostics) = lastPublish.diagnostics
       /\ Len(lastPublish.diagnostics) <= ErrorScanLimit
       /\ Len(lastPublish.diagnostics)
            = Min({ErrorScanLimit, Cardinality(OperatorMatchPositions(lastPublish.text))})
       /\ \A n \in ClientCaps \cup {DefaultMaxNumberOfProblems} :
            onDidChangeContentDiagnostics(lastPublish.text, ExampleSettings(n))
              = lastPublish.diagnostics
       /\ ErrorLoop(lastPublish.text, 0, ErrorScanLimit, <<>>) = <<>>

\* a change scan given maxNumberOfProblems = 0 published an Error
C14_Witness ==
    /\ lastPublish.kind = "change"
    /\ lastPublish.settings.maxNumberOfProblems = 0
    /\ Len(lastPublish.diagnostics) = 1
    /\ lastPublish.diagnostics[1].severity = Error

\* C15: whatever the client answered, a scan that resumes after its await
\* ends by publishing the diagnostics of its document for its event; none
\* ends by raising an error.
C15_EveryScanPublishes ==
    [][(microtasks # <<>> /\ microtasks' = Tail(microtasks))
       => /\ ~TaskThrows(Head(microtasks))
          /\ lastPublish'.kind = Head(microtasks).kind
          /\ lastPublish'.uri = Head(microtasks).uri
          /\ lastPublish'.promise = Head(microtasks).promise
          /\ lastPublish'.text = TaskText(Head(microtasks))
          /\ published'[Head(microtasks).uri] = lastPublish'.diagnostics
      ]_vars

\* C16: diagnostics are sent for a URI only while its document is open:
\* the document of every publish is open when the publish is sent.
C16_PublishOnlyForOpenDocument ==
    lastPublish.kind # NoPublish.kind => lastPublish.current.open

\* the requests for the settings of u sent in a step
NewRequestsFor(u) ==
    {i \in (Len(requests) + 1)..Len(requests') : requests'[i].scopeUri = u}
AllTasks(w, m) == w \o m

\* C17: with the capability a step sends at most one request for a URI, and
\* only when the URI has no cache entry or the step is a configuration
\* notification; the request becomes the entry, and the entry stays until a
\* close of the URI or a configuration notification. A content change of a
\* document that has an entry sends nothing and awaits the cached promise.
\* Without the capability no request is sent and the cache stays empty.
C17_OneRequestPerCacheEntry ==
    [][/\ Len(requests') >= Len(requests)
       /\ \A i \in 1..Len(requests) : requests'[i].scopeUri = requests[i].scopeUri
       /\ \A u \in URIs :
            /\ Cardinality(NewRequestsFor(u)) <= 1
            /\ NewRequestsFor(u) # {}
               => /\ hasConfigurationCapability
                  /\ documentSettings[u] = 0 \/ \E s \in Sections : DidChangeConfiguration(s)
                  /\ documentSettings'[u] \in NewRequestsFor(u)
            /\ (documentSettings[u] # 0 /\ documentSettings'[u] # documentSettings[u])
               => DidClose(u) \/ \E s \in Sections : DidChangeConfiguration(s)
            /\ (documentSettings[u] # 0 /\ \E text \in Texts : DidChange(u, text))
               => /\ requests' = requests
                  /\ documentSettings' = documentSettings
                  /\ Len(AllTasks(waiting', microtasks'))
                       = Len(AllTasks(waiting, microtasks)) + 1
                  /\ \E k \in 1..Len(AllTasks(waiting', microtasks')) :
                       LET task == AllTasks(waiting', microtasks')[k]
                       IN  /\ task.kind = "change" /\ task.uri = u
                           /\ task.promise = documentSettings[u]
                  /\ \A k \in 1..Len(AllTasks(waiting', microtasks')) :
                       AllTasks(waiting', microtasks')[k].promise \in 1..Len(requests)
       /\ ~hasConfigurationCapability' => requests' = <<>> /\ CachedURIs' = {}
      ]_vars

\* two content-change scans of one document wait for the one request sent
\* for it
C17_Witness ==
    /\ hasConfigurationCapability
    /\ Len(requests) = 1 /\ ~requests[1].resolved
    /\ Len(waiting) = 2
    /\ \A k \in 1..2 : /\ waiting[k].kind = "change"
                        /\ waiting[k].uri = requests[1].scopeUri
                        /\ waiting[k].promise = 1
    /\ documentSettings[requests[1].scopeUri] = 1

====
